---- MODULE Spec2Model ----
(***************************************************************************)
(* Model of wezterm-gui/src/termwindow/charselect.rs: the character        *)
(* selector modal (CharSelector), its ranking function compute_matches     *)
(* and its key handlers.                                                   *)
(*                                                                         *)
(* Strings are sequences of one-character strings, catalog indices         *)
(* (row_idx, alias_idx) are 0-based as in the source, so the alias with    *)
(* index i is aliases[i + 1].                                              *)
(***************************************************************************)
EXTENDS Integers, Sequences, FiniteSets, TLC

VARIABLES aliases, matcher, group, selection, matches,
          selected_row, top_row, max_rows_on_screen, status, confirmed,
          last_op, ranked

vars == <<aliases, matcher, group, selection, matches,
          selected_row, top_row, max_rows_on_screen, status, confirmed,
          last_op, ranked>>

(***************************************************************************)
(* Bounds of the model.                                                    *)
(***************************************************************************)
\* largest max_rows_on_screen the window geometry yields in computed_element
MaxRows == 3
\* longest query typed in one session
MaxQueryLen == 2

(***************************************************************************)
(* Program constants.  TLC integers are 32 bits wide, so the two 64-bit    *)
(* maxima are represented by the largest TLC integer; only their order     *)
(* relative to the (small) fuzzy scores and row numbers matters.           *)
(***************************************************************************)
I64_MAX == 2147483647
USIZE_MAX == 2147483647

(***************************************************************************)
(* Characters.                                                             *)
(***************************************************************************)
LowerAlpha == <<"a", "b", "c", "d", "e", "f", "g", "h", "i", "j", "k", "l", "m",
                "n", "o", "p", "q", "r", "s", "t", "u", "v", "w", "x", "y", "z">>
UpperAlpha == <<"A", "B", "C", "D", "E", "F", "G", "H", "I", "J", "K", "L", "M",
                "N", "O", "P", "Q", "R", "S", "T", "U", "V", "W", "X", "Y", "Z">>
HexDigits == <<"0", "1", "2", "3", "4", "5", "6", "7", "8", "9",
               "A", "B", "C", "D", "E", "F">>

is_ascii_uppercase(c) == \E i \in 1..26 : UpperAlpha[i] = c

to_ascii_lowercase(c) ==
    IF is_ascii_uppercase(c)
    THEN LowerAlpha[CHOOSE i \in 1..26 : UpperAlpha[i] = c]
    ELSE c

to_ascii_uppercase(c) ==
    IF \E i \in 1..26 : LowerAlpha[i] = c
    THEN UpperAlpha[CHOOSE i \in 1..26 : LowerAlpha[i] = c]
    ELSE c

is_ascii_hexdigit(c) ==
    \/ \E i \in 1..16 : HexDigits[i] = c
    \/ \E i \in 1..6 : LowerAlpha[i] = c

starts_with(s, prefix) ==
    /\ Len(prefix) <= Len(s)
    /\ SubSeq(s, 1, Len(prefix)) = prefix

\* format!("{:X}", n): upper-case hexadecimal, no leading zeros
RECURSIVE FormatUpperHex(_)
FormatUpperHex(n) ==
    IF n < 16
    THEN <<HexDigits[n + 1]>>
    ELSE FormatUpperHex(n \div 16) \o <<HexDigits[(n % 16) + 1]>>

(***************************************************************************)
(* Alias: name, glyph (the scalar values of the character) and group.      *)
(***************************************************************************)
RECURSIVE CodepointsOf(_)
CodepointsOf(glyph) ==
    IF glyph = <<>>
    THEN <<>>
    ELSE LET rest == CodepointsOf(Tail(glyph))
             tok == <<"U", "+">> \o FormatUpperHex(Head(glyph))
         IN IF rest = <<>> THEN tok ELSE tok \o <<" ">> \o rest

codepoints(alias) == CodepointsOf(alias.glyph)

\* the CharSelectGroup values of the model, in the order next() cycles them
GroupOrder == <<"SmileysAndEmotion", "PeopleAndBody", "UnicodeNames">>

Groups == {GroupOrder[i] : i \in 1..Len(GroupOrder)}

next(g) ==
    LET i == CHOOSE k \in 1..Len(GroupOrder) : GroupOrder[k] = g
    IN GroupOrder[(i % Len(GroupOrder)) + 1]

Alias(n, gl, gr) == [name |-> n, glyph |-> gl, group |-> gr]

\* the scenario catalog: "grinning", "grin", "frown"
CatalogGrin ==
    << Alias(<<"g", "r", "i", "n", "n", "i", "n", "g">>, <<128512>>, "SmileysAndEmotion"),
       Alias(<<"g", "r", "i", "n">>, <<128513>>, "SmileysAndEmotion"),
       Alias(<<"f", "r", "o", "w", "n">>, <<9785>>, "PeopleAndBody") >>

\* a catalog with code point U+E1, names equal to hexadecimal queries, a
\* duplicated name and a glyph of two scalar values
CatalogHex ==
    << Alias(<<"g", "e", "-", "1">>, <<225>>, "UnicodeNames"),
       Alias(<<"E", "1">>, <<9731>>, "SmileysAndEmotion"),
       Alias(<<"e", "-", "1">>, <<110593>>, "UnicodeNames"),
       Alias(<<"E", "1">>, <<225, 769>>, "PeopleAndBody") >>

Catalogs == {<<>>, CatalogGrin, CatalogHex}

\* the queries a session types, character by character
Queries == { <<"g", "r", "i", "n">>, <<"E", "1">>, <<"e", "1">>,
             <<"U", "+", "E", "1">> }

QueryPrefixes == UNION {{SubSeq(q, 1, n) : n \in 0..Len(q)} : q \in Queries}

QueryChars == UNION {{q[i] : i \in 1..Len(q)} : q \in Queries}

(***************************************************************************)
(* SkimMatcherV2::fuzzy_match(choice, pattern).  The crate is not part of  *)
(* the repository: a candidate matches when the pattern is an ordered      *)
(* subsequence of it, compared with smart case (case-sensitive exactly     *)
(* when the pattern has an upper-case letter); the score policy is a       *)
(* parameter of the model, drawn from Matchers.                            *)
(***************************************************************************)
Matchers == {"flat", "compact", "long"}

\* the policy of SkimMatcherV2::default() in a session
DefaultMatcher == "compact"

NoScore == [some |-> FALSE, score |-> 0]
SomeScore(s) == [some |-> TRUE, score |-> s]

RECURSIVE IsSubsequence(_, _, _)
IsSubsequence(pattern, choice, case_sensitive) ==
    IF pattern = <<>> THEN TRUE
    ELSE IF choice = <<>> THEN FALSE
    ELSE LET same == IF case_sensitive
                     THEN Head(pattern) = Head(choice)
                     ELSE to_ascii_lowercase(Head(pattern)) = to_ascii_lowercase(Head(choice))
         IN IF same
            THEN IsSubsequence(Tail(pattern), Tail(choice), case_sensitive)
            ELSE IsSubsequence(pattern, Tail(choice), case_sensitive)

fuzzy_match(m, choice, pattern) ==
    LET case_sensitive == \E i \in 1..Len(pattern) : is_ascii_uppercase(pattern[i])
    IN IF pattern = <<>> THEN SomeScore(0)
       ELSE IF ~IsSubsequence(pattern, choice, case_sensitive) THEN NoScore
       ELSE CASE m = "flat" -> SomeScore(16 * Len(pattern))
              [] m = "compact" -> SomeScore(16 * Len(pattern) - (Len(choice) - Len(pattern)))
              [] OTHER -> SomeScore(16 * Len(pattern) + Len(choice))

(***************************************************************************)
(* MatchResult and compute_matches.                                        *)
(***************************************************************************)
NoResult == [some |-> FALSE, row_idx |-> 0, score |-> 0]
SomeResult(row_idx, score) == [some |-> TRUE, row_idx |-> row_idx, score |-> score]

\* variant without the exact-match boost
MatchResult_new_NoBoost(row_idx, score, sel, al) ==
    SomeResult(row_idx, score)

MatchResult_new(row_idx, score, sel, al) ==
    SomeResult(row_idx, IF al[row_idx + 1].name = sel THEN I64_MAX ELSE score)

\* Option::map(|score| MatchResult::new(row_idx, score, sel, aliases))
MapNew(opt, row_idx, sel, al) ==
    IF opt.some THEN MatchResult_new(row_idx, opt.score, sel, al) ELSE NoResult

numeric_selection(sel) ==
    IF \A i \in 1..Len(sel) : is_ascii_hexdigit(sel[i])
    THEN [some |-> TRUE, sel |-> <<"U", "+">> \o sel]
    ELSE IF starts_with(sel, <<"U", "+">>)
         THEN [some |-> TRUE, sel |-> sel]
         ELSE [some |-> FALSE, sel |-> <<>>]

Max(a, b) == IF a >= b THEN a ELSE b
Min(a, b) == IF a <= b THEN a ELSE b

\* variant that combines the two results by the smaller score
MatchEntry_Min(m, sel, al, row_idx) ==
    LET entry == al[row_idx + 1]
        alias_result == MapNew(fuzzy_match(m, entry.name, sel), row_idx, sel, al)
        num == numeric_selection(sel)
    IN IF num.some
       THEN IF codepoints(entry) = num.sel
            THEN SomeResult(row_idx, I64_MAX)
            ELSE LET number_result ==
                         MapNew(fuzzy_match(m, codepoints(entry), num.sel),
                                row_idx, num.sel, al)
                 IN IF alias_result.some /\ number_result.some
                    THEN SomeResult(row_idx, Min(alias_result.score, number_result.score))
                    ELSE IF alias_result.some THEN alias_result
                    ELSE IF number_result.some THEN number_result
                    ELSE NoResult
       ELSE alias_result

\* the body of the filter_map closure: the MatchResult of one alias, if any
MatchEntry(m, sel, al, row_idx) ==
    LET entry == al[row_idx + 1]
        alias_result == MapNew(fuzzy_match(m, entry.name, sel), row_idx, sel, al)
        num == numeric_selection(sel)
    IN IF num.some
       THEN IF codepoints(entry) = num.sel
            THEN SomeResult(row_idx, I64_MAX)
            ELSE LET number_result ==
                         MapNew(fuzzy_match(m, codepoints(entry), num.sel),
                                row_idx, num.sel, al)
                 IN IF alias_result.some /\ number_result.some
                    THEN SomeResult(row_idx, Max(alias_result.score, number_result.score))
                    ELSE IF alias_result.some THEN alias_result
                    ELSE IF number_result.some THEN number_result
                    ELSE NoResult
       ELSE alias_result

\* aliases.iter().enumerate().filter_map(..).collect(), from row_idx on
RECURSIVE CollectScores(_, _, _, _)
CollectScores(m, sel, al, row_idx) ==
    IF row_idx >= Len(al)
    THEN <<>>
    ELSE LET r == MatchEntry(m, sel, al, row_idx)
         IN (IF r.some THEN <<r>> ELSE <<>>) \o CollectScores(m, sel, al, row_idx + 1)

\* scores.sort_by(|a, b| a.score.cmp(&b.score).reverse()): a stable sort, so
\* an element is placed behind every element whose score is not smaller
\* variant of an unstable sort: an element is placed before its equals
RECURSIVE InsertByScore_Unstable(_, _)
InsertByScore_Unstable(sorted, x) ==
    IF sorted = <<>>
    THEN <<x>>
    ELSE IF Head(sorted).score > x.score
         THEN <<Head(sorted)>> \o InsertByScore_Unstable(Tail(sorted), x)
         ELSE <<x>> \o sorted

RECURSIVE InsertByScore(_, _)
InsertByScore(sorted, x) ==
    IF sorted = <<>>
    THEN <<x>>
    ELSE IF Head(sorted).score >= x.score
         THEN <<Head(sorted)>> \o InsertByScore(Tail(sorted), x)
         ELSE <<x>> \o sorted

RECURSIVE SortInto(_, _)
SortInto(sorted, rest) ==
    IF rest = <<>>
    THEN sorted
    ELSE SortInto(InsertByScore(sorted, Head(rest)), Tail(rest))

sort_by_score_reverse(scores) == SortInto(<<>>, scores)

\* aliases.iter().enumerate().filter(group).map(idx).collect(), from idx on
\* variant that keeps every alias whatever its group
RECURSIVE FilterGroup_All(_, _, _)
FilterGroup_All(al, g, idx) ==
    IF idx >= Len(al) THEN <<>> ELSE <<idx>> \o FilterGroup_All(al, g, idx + 1)

RECURSIVE FilterGroup(_, _, _)
FilterGroup(al, g, idx) ==
    IF idx >= Len(al)
    THEN <<>>
    ELSE (IF al[idx + 1].group = g THEN <<idx>> ELSE <<>>) \o FilterGroup(al, g, idx + 1)

\* variant that applies the group filter to a non-empty selection too
compute_matches_Grouped(m, sel, al, g) ==
    IF sel = <<>>
    THEN FilterGroup(al, g, 0)
    ELSE LET scores == sort_by_score_reverse(CollectScores(m, sel, al, 0))
             kept == SelectSeq(scores, LAMBDA r : al[r.row_idx + 1].group = g)
         IN [i \in 1..Len(kept) |-> kept[i].row_idx]

compute_matches(m, sel, al, g) ==
    IF sel = <<>>
    THEN FilterGroup(al, g, 0)
    ELSE LET scores == sort_by_score_reverse(CollectScores(m, sel, al, 0))
         IN [i \in 1..Len(scores) |-> scores[i].row_idx]

(***************************************************************************)
(* CharSelector state.                                                     *)
(***************************************************************************)
NoMatches == [some |-> FALSE, selection |-> <<>>, matches |-> <<>>, group |-> "none"]

SomeMatches(sel, ms, g) == [some |-> TRUE, selection |-> sel, matches |-> ms, group |-> g]

\* CharSelector::new
Init ==
    /\ aliases \in Catalogs
    /\ matcher = DefaultMatcher
    /\ group \in Groups
    /\ selection = <<>>
    /\ matches = NoMatches
    /\ selected_row = 0
    /\ top_row = 0
    /\ max_rows_on_screen = 0
    /\ status = "open"
    /\ confirmed = -1
    /\ last_op = "new"
    /\ ranked = FALSE

saturating_sub(a, b) == IF a >= b THEN a - b ELSE 0

\* variant that forgets the top row
updated_input_RowOnly ==
    /\ selected_row' = 0
    /\ UNCHANGED top_row

updated_input ==
    /\ selected_row' = 0
    /\ top_row' = 0

Frame == UNCHANGED <<aliases, matcher, confirmed>>

\* variant that always pulls the top row to the cursor
MoveUpTopRow_Always(row, top) == row

\* the new top_row of move_up for the new row
MoveUpTopRow(row, top) == IF row < top THEN row ELSE top

move_up ==
    /\ selected_row' = saturating_sub(selected_row, 1)
    /\ top_row' = MoveUpTopRow(selected_row', top_row)

\* variant that never scrolls
MoveDownTopRow_NoScroll(row, top, last) == top

\* the new top_row of move_down for the new row; last is max_rows_on_screen - 1
MoveDownTopRow(row, top, last) ==
    IF row + top > last THEN saturating_sub(row, last) ELSE top

\* variant whose limit is the length, not the last index
MoveDownLimit_OffByOne(ms, al) ==
    IF ms.some THEN Len(ms.matches) ELSE Len(al)

MoveDownLimit(ms, al) ==
    saturating_sub(IF ms.some THEN Len(ms.matches) ELSE Len(al), 1)

\* max_rows_on_screen - 1 on usize: at 0 the subtraction panics in a build
\* with overflow checks and wraps in a build without them
move_down ==
    /\ selected_row' = Min(selected_row + 1, MoveDownLimit(matches, aliases))
    /\ IF max_rows_on_screen = 0
       THEN \/ /\ status' = "panicked"
               /\ UNCHANGED top_row
            \/ /\ top_row' = MoveDownTopRow(selected_row', top_row, USIZE_MAX)
               /\ UNCHANGED status
       ELSE /\ top_row' = MoveDownTopRow(selected_row', top_row, max_rows_on_screen - 1)
            /\ UNCHANGED status

(***************************************************************************)
(* Modal::key_down, one action per arm.                                    *)
(***************************************************************************)
KeyEscape ==
    /\ status = "open"
    /\ status' = "closed"
    /\ last_op' = "escape"
    /\ ranked' = FALSE
    /\ UNCHANGED <<group, selection, matches, selected_row, top_row, max_rows_on_screen>>
    /\ Frame

\* variant that keeps the typed selection
KeyCtrlR_KeepSelection ==
    /\ status = "open"
    /\ group' = next(group)
    /\ updated_input
    /\ last_op' = "cycle"
    /\ ranked' = FALSE
    /\ UNCHANGED <<selection, matches, max_rows_on_screen, status>>
    /\ Frame

KeyCtrlR ==
    /\ status = "open"
    /\ group' = next(group)
    /\ selection' = <<>>
    /\ updated_input
    /\ last_op' = "cycle"
    /\ ranked' = FALSE
    /\ UNCHANGED <<matches, max_rows_on_screen, status>>
    /\ Frame

\* variant that drops the cached result
KeyUpArrow_DropsCache ==
    /\ status = "open"
    /\ move_up
    /\ matches' = NoMatches
    /\ last_op' = "up"
    /\ ranked' = FALSE
    /\ UNCHANGED <<group, selection, max_rows_on_screen, status>>
    /\ Frame

KeyUpArrow ==
    /\ status = "open"
    /\ move_up
    /\ last_op' = "up"
    /\ ranked' = FALSE
    /\ UNCHANGED <<group, selection, matches, max_rows_on_screen, status>>
    /\ Frame

KeyDownArrow ==
    /\ status = "open"
    /\ move_down
    /\ last_op' = "down"
    /\ ranked' = FALSE
    /\ UNCHANGED <<group, selection, matches, max_rows_on_screen>>
    /\ Frame

KeyChar(c) ==
    /\ status = "open"
    /\ Len(selection) < MaxQueryLen
    /\ Append(selection, c) \in QueryPrefixes
    /\ selection' = Append(selection, c)
    /\ updated_input
    /\ last_op' = "char"
    /\ ranked' = FALSE
    /\ UNCHANGED <<group, matches, max_rows_on_screen, status>>
    /\ Frame

\* String::pop
pop(s) == IF s = <<>> THEN s ELSE SubSeq(s, 1, Len(s) - 1)

KeyBackspace ==
    /\ status = "open"
    /\ selection' = pop(selection)
    /\ updated_input
    /\ last_op' = "backspace"
    /\ ranked' = FALSE
    /\ UNCHANGED <<group, matches, max_rows_on_screen, status>>
    /\ Frame

\* variant that invalidates the cached result with a dirty flag
KeyCtrlU_Invalidate ==
    /\ status = "open"
    /\ selection' = <<>>
    /\ updated_input
    /\ matches' = NoMatches
    /\ last_op' = "clear"
    /\ ranked' = FALSE
    /\ UNCHANGED <<group, max_rows_on_screen, status>>
    /\ Frame

KeyCtrlU ==
    /\ status = "open"
    /\ selection' = <<>>
    /\ updated_input
    /\ last_op' = "clear"
    /\ ranked' = FALSE
    /\ UNCHANGED <<group, matches, max_rows_on_screen, status>>
    /\ Frame

\* the alias index Enter reads, or -1 when an index is out of bounds (panic)
EnterAliasIdx(ms, row, al) ==
    LET alias_idx == IF ms.some
                     THEN IF row < Len(ms.matches) THEN ms.matches[row + 1] ELSE -1
                     ELSE row
    IN IF alias_idx >= 0 /\ alias_idx < Len(al) THEN alias_idx ELSE -1

KeyEnter ==
    /\ status = "open"
    /\ LET alias_idx == EnterAliasIdx(matches, selected_row, aliases)
       IN IF alias_idx = -1
          THEN /\ status' = "panicked"
               /\ UNCHANGED confirmed
          ELSE /\ status' = "closed"
               /\ confirmed' = alias_idx
    /\ last_op' = "enter"
    /\ ranked' = FALSE
    /\ UNCHANGED <<group, selection, matches, selected_row, top_row, max_rows_on_screen>>
    /\ UNCHANGED <<aliases, matcher>>

(***************************************************************************)
(* Modal::computed_element: the render, which recomputes the matches.      *)
(***************************************************************************)
\* variant that compares the selection only
rebuild_matches_SelectionOnly(ms, sel, g) ==
    IF ms.some THEN ms.selection # sel ELSE TRUE

rebuild_matches(ms, sel, g) ==
    IF ms.some THEN ms.selection # sel \/ ms.group # g ELSE TRUE

computed_element(rows) ==
    /\ status = "open"
    /\ max_rows_on_screen' = rows
    /\ ranked' = rebuild_matches(matches, selection, group)
    /\ matches' = IF ranked'
                  THEN SomeMatches(selection,
                                   compute_matches(matcher, selection, aliases, group),
                                   group)
                  ELSE matches
    /\ last_op' = "render"
    /\ UNCHANGED <<group, selection, selected_row, top_row, status>>
    /\ Frame

Next ==
    \/ KeyEscape
    \/ KeyCtrlR
    \/ KeyUpArrow
    \/ KeyDownArrow
    \/ \E c \in QueryChars : KeyChar(c)
    \/ KeyBackspace
    \/ KeyCtrlU
    \/ KeyEnter
    \/ \E rows \in 0..MaxRows : computed_element(rows)

Spec == Init /\ [][Next]_vars

(***************************************************************************)
(* Cursor movement alone: a session that has rendered once with at least   *)
(* one row on screen and then only moves the cursor.                       *)
(***************************************************************************)
InitNav ==
    /\ aliases \in Catalogs
    /\ matcher \in Matchers
    /\ group \in Groups
    /\ selection \in {q \in QueryPrefixes : Len(q) <= MaxQueryLen}
    /\ matches = SomeMatches(selection,
                             compute_matches(matcher, selection, aliases, group),
                             group)
    /\ selected_row = 0
    /\ top_row = 0
    /\ max_rows_on_screen \in 1..MaxRows
    /\ status = "open"
    /\ confirmed = -1
    /\ last_op = "render"
    /\ ranked = TRUE

NextNav ==
    \/ KeyUpArrow
    \/ KeyDownArrow

SpecNav == InitNav /\ [][NextNav]_vars

(***************************************************************************)
(* The ranking as a function of its inputs: catalog, matcher policy, group *)
(* and selection are drawn from their sets and the render ranks them.      *)
(***************************************************************************)
InitRank ==
    /\ aliases \in Catalogs
    /\ matcher \in Matchers
    /\ group \in Groups
    /\ selection \in QueryPrefixes
    /\ matches = NoMatches
    /\ selected_row = 0
    /\ top_row = 0
    /\ max_rows_on_screen = 0
    /\ status = "open"
    /\ confirmed = -1
    /\ last_op = IF selection = <<>> THEN "new" ELSE "char"
    /\ ranked = FALSE

NextRank == \E rows \in 0..MaxRows : computed_element(rows)

SpecRank == InitRank /\ [][NextRank]_vars

(***************************************************************************)
(* Auxiliary definitions of the properties.                                *)
(***************************************************************************)
\* the cached result was computed for the current selection and group
Fresh ==
    /\ matches.some
    /\ matches.selection = selection
    /\ matches.group = group

\* the ranking of the current selection and group
CurrentRank == compute_matches(matcher, selection, aliases, group)

\* the final score of alias k for the current selection
FinalScore(k) == MatchEntry(matcher, selection, aliases, k).score

InputOps == {"cycle", "char", "backspace", "clear"}

AllHex(s) == \A i \in 1..Len(s) : is_ascii_hexdigit(s[i])

Upper(s) == [i \in 1..Len(s) |-> to_ascii_uppercase(s[i])]

\* position p of the result holds an entry that may precede a top entry k
TopBefore(r, p, k) == r[p] < k /\ FinalScore(r[p]) = I64_MAX

\* alias k is in the result r, behind top-scored aliases of smaller index only
RankedTop(r, k) ==
    \E p \in 1..Len(r) :
        /\ r[p] = k
        /\ \A b \in 1..(p - 1) : TopBefore(r, b, k)

(***************************************************************************)
(* Properties.                                                             *)
(***************************************************************************)
\* C1: in every state that holds a cached result, the cursor selected_row
\* satisfies 0 <= selected_row < max(1, len(cached result)).
C1_CursorWithinResult ==
    matches.some =>
        /\ selected_row >= 0
        /\ selected_row < Max(1, Len(matches.matches))

\* C2: with max_rows_on_screen fixed at a value >= 1 and starting from
\* selected_row = top_row = 0, after any sequence of move_up / move_down the
\* cursor is visible: top_row <= selected_row < top_row + max_rows_on_screen.
C2_CursorVisible ==
    /\ top_row <= selected_row
    /\ selected_row < top_row + max_rows_on_screen

\* a state in which the window has scrolled down and the cursor has moved
\* back up inside it
C2_Witness ==
    /\ last_op = "up"
    /\ top_row > 0
    /\ selected_row > top_row

\* C3: whenever the ranking of the current selection and group is not empty,
\* Enter returns the entry of that ranking at the cursor.
C3_ConfirmReturnsCurrent ==
    (last_op = "enter" /\ Len(CurrentRank) > 0) =>
        /\ status = "closed"
        /\ selected_row < Len(CurrentRank)
        /\ confirmed = CurrentRank[selected_row + 1]

\* C4: a render runs compute_matches if and only if no result is cached or
\* the cached (selection, group) pair differs from the current one; after
\* every render the cached result is the ranking of the current selection
\* and group; a render that directly follows a render does not rank and
\* leaves the cached result as it is.
C4_RankIffStale ==
    [][ last_op' = "render" =>
          /\ ranked' = ~Fresh
          /\ Fresh'
          /\ matches'.matches = compute_matches(matcher', selection', aliases', group')
          /\ (last_op = "render" => ~ranked' /\ matches' = matches) ]_vars

\* a render that found the cached result of a non-trivial ranking current
C4_Witness ==
    /\ last_op = "render"
    /\ ~ranked
    /\ Len(matches.matches) > 1
    /\ selection # <<>>

\* C5: every state reached by Ctrl-R, a character, Backspace or Ctrl-U has
\* selected_row = 0 and top_row = 0.
C5_InputResetsCursor ==
    last_op \in InputOps => selected_row = 0 /\ top_row = 0

\* an input made while the cached result has more rows than the screen, so
\* while the cursor and the top row could be anywhere in it
C5_Witness ==
    /\ last_op \in InputOps
    /\ max_rows_on_screen >= 1
    /\ Len(matches.matches) > max_rows_on_screen

\* C6: the ranking of the empty selection is exactly the catalog indices of
\* the aliases of the current group, each once, in ascending order.
C6_EmptySelectionListsGroup ==
    (Fresh /\ selection = <<>>) =>
        LET r == matches.matches
        IN /\ \A i \in 1..Len(r) :
                  /\ r[i] \in 0..(Len(aliases) - 1)
                  /\ aliases[r[i] + 1].group = group
           /\ \A i, j \in 1..Len(r) : i < j => r[i] < r[j]
           /\ \A k \in 0..(Len(aliases) - 1) :
                  aliases[k + 1].group = group => \E i \in 1..Len(r) : r[i] = k

\* a browse result of several aliases that leaves others of the catalog out
C6_Witness ==
    /\ Fresh
    /\ selection = <<>>
    /\ Len(matches.matches) >= 2
    /\ Len(matches.matches) < Len(aliases)

\* C7 as stated: for a non-empty selection, every alias whose name equals
\* the selection is the first element of the ranking.
C7_ExactNameFirst ==
    (Fresh /\ selection # <<>>) =>
        \A k \in 0..(Len(aliases) - 1) :
            aliases[k + 1].name = selection =>
                Len(matches.matches) > 0 /\ matches.matches[1] = k

\* C7 amended: for a non-empty selection, every alias whose name equals the
\* selection is in the ranking with the maximum score, and the only entries
\* ranked before it are entries of maximum score with a smaller index.
C7_ExactNameTop ==
    (Fresh /\ selection # <<>>) =>
        \A k \in 0..(Len(aliases) - 1) :
            aliases[k + 1].name = selection =>
                FinalScore(k) = I64_MAX /\ RankedTop(matches.matches, k)

\* an exact name ranked first although the policy scores another match higher
C7_Witness ==
    /\ Fresh
    /\ selection # <<>>
    /\ Len(matches.matches) >= 2
    /\ aliases[matches.matches[1] + 1].name = selection
    /\ \E i \in 2..Len(matches.matches) :
           LET a == aliases[matches.matches[i] + 1]
           IN /\ a.name # selection
              /\ fuzzy_match(matcher, a.name, selection).score
                   > fuzzy_match(matcher, selection, selection).score

\* C8: for a selection h of hexadecimal digits only, every alias whose
\* codepoints() equals "U+h" up to the case of the digits has the maximum
\* score and is ranked before every entry that has not, entries of maximum
\* score being in catalog order.
C8_HexCodepointTop ==
    (Fresh /\ selection # <<>> /\ AllHex(selection)) =>
        \A k \in 0..(Len(aliases) - 1) :
            Upper(codepoints(aliases[k + 1])) = <<"U", "+">> \o Upper(selection) =>
                FinalScore(k) = I64_MAX /\ RankedTop(matches.matches, k)

\* C9: for a non-empty selection the ranking is in order of non-increasing
\* final score, and entries of equal final score are in ascending catalog
\* order.
C9_SortedStable ==
    (Fresh /\ selection # <<>>) =>
        LET r == matches.matches
        IN \A i, j \in 1..Len(r) :
               i < j =>
                   \/ FinalScore(r[i]) > FinalScore(r[j])
                   \/ FinalScore(r[i]) = FinalScore(r[j]) /\ r[i] < r[j]

\* a ranking with two entries of equal score and two of different score
C9_Witness ==
    /\ Fresh
    /\ selection # <<>>
    /\ LET r == matches.matches
       IN /\ \E i, j \in 1..Len(r) : i < j /\ FinalScore(r[i]) = FinalScore(r[j])
          /\ \E i, j \in 1..Len(r) : i < j /\ FinalScore(r[i]) > FinalScore(r[j])

\* C10: for a non-empty selection the ranking is the same for every group.
C10_GroupIgnored ==
    (Fresh /\ selection # <<>>) =>
        \A g \in Groups :
            compute_matches(matcher, selection, aliases, g) = matches.matches

\* a ranking of a non-empty selection that holds an alias of another group
C10_Witness ==
    /\ Fresh
    /\ selection # <<>>
    /\ \E i \in 1..Len(matches.matches) :
           aliases[matches.matches[i] + 1].group # group

MoveOps == {"up", "down"}

\* r lists exactly the catalog indices of the aliases of group g, ascending
ListsGroup(r, g) ==
    /\ \A i \in 1..Len(r) :
           /\ r[i] \in 0..(Len(aliases) - 1)
           /\ aliases[r[i] + 1].group = g
    /\ \A i, j \in 1..Len(r) : i < j => r[i] < r[j]
    /\ \A k \in 0..(Len(aliases) - 1) :
           aliases[k + 1].group = g => \E i \in 1..Len(r) : r[i] = k

\* the result of the name path for alias k and the current selection
PathName(k) ==
    MapNew(fuzzy_match(matcher, aliases[k + 1].name, selection), k, selection, aliases)

\* the result of the codepoint path for alias k and the current selection
PathCode(k) ==
    LET num == numeric_selection(selection)
        cp == codepoints(aliases[k + 1])
    IN IF ~num.some THEN NoResult
       ELSE IF cp = num.sel THEN SomeResult(k, I64_MAX)
       ELSE MapNew(fuzzy_match(matcher, cp, num.sel), k, num.sel, aliases)

\* the larger of the scores of the paths that match alias k
PathScore(k) ==
    IF PathName(k).some /\ PathCode(k).some
    THEN Max(PathName(k).score, PathCode(k).score)
    ELSE IF PathName(k).some THEN PathName(k).score ELSE PathCode(k).score

\* C11: Ctrl-R, a character, Backspace, Ctrl-U, UpArrow and DownArrow
\* complete without a panic in every state.
C11_MutatorsNeverFail ==
    last_op \in (InputOps \cup MoveOps) => status = "open"

\* C12: Enter pressed while the ranking of the current selection and group
\* is empty ends in a panic and yields no alias index.
C12_ConfirmOnEmptyPanics ==
    (last_op = "enter" /\ Len(CurrentRank) = 0) =>
        status = "panicked" /\ confirmed = -1

\* C13: with at least one row on screen, move_down changes top_row only when
\* the new cursor is at or beyond top_row + max_rows_on_screen, and then to
\* max(0, cursor - max_rows_on_screen + 1); otherwise top_row is unchanged.
C13_MoveDownScrollsOnlyWhenBelow ==
    [][ (last_op' = "down" /\ max_rows_on_screen >= 1) =>
          top_row' = IF selected_row' >= top_row + max_rows_on_screen
                     THEN Max(0, selected_row' - max_rows_on_screen + 1)
                     ELSE top_row ]_vars

\* C14: move_up at cursor 0 leaves the cursor at 0, move_down at the last row
\* of the cached result leaves it there, and with an empty cached result and
\* the cursor at 0 both leave it at 0.
C14_MovesSaturate ==
    [][ /\ (last_op' = "up" /\ selected_row = 0) => selected_row' = 0
        /\ (last_op' = "down" /\ matches.some /\ Len(matches.matches) > 0
              /\ selected_row = Len(matches.matches) - 1)
               => selected_row' = Len(matches.matches) - 1
        /\ (last_op' \in MoveOps /\ matches.some /\ Len(matches.matches) = 0
              /\ selected_row = 0)
               => selected_row' = 0 ]_vars

\* the cursor on the last row of a result of several rows after move_down
C14_Witness ==
    /\ last_op = "down"
    /\ status = "open"
    /\ matches.some
    /\ Len(matches.matches) >= 2
    /\ selected_row = Len(matches.matches) - 1

\* C15: after every render that has at least one row on screen the cursor
\* is visible: top_row <= selected_row < top_row + max_rows_on_screen.
C15_VisibleAfterRender ==
    (last_op = "render" /\ max_rows_on_screen >= 1) =>
        /\ top_row <= selected_row
        /\ selected_row < top_row + max_rows_on_screen

\* C16: for a non-empty selection an alias is in the ranking exactly once if
\* the name path or the codepoint path matches it and not at all otherwise,
\* and its final score is the larger score of the paths that match it.
C16_EitherPathMaxScore ==
    (Fresh /\ selection # <<>>) =>
        LET r == matches.matches
        IN /\ \A k \in 0..(Len(aliases) - 1) :
                  /\ Cardinality({i \in 1..Len(r) : r[i] = k})
                       = IF PathName(k).some \/ PathCode(k).some THEN 1 ELSE 0
                  /\ (PathName(k).some \/ PathCode(k).some)
                       => FinalScore(k) = PathScore(k)
           /\ \A i \in 1..Len(r) : r[i] \in 0..(Len(aliases) - 1)
           /\ \A i, j \in 1..Len(r) :
                  i < j => \/ PathScore(r[i]) > PathScore(r[j])
                           \/ PathScore(r[i]) = PathScore(r[j]) /\ r[i] < r[j]

\* a ranking with an alias matched on both paths with different scores, one
\* matched on one path only and one left out
C16_Witness ==
    /\ Fresh
    /\ selection # <<>>
    /\ \E k \in 0..(Len(aliases) - 1) :
           /\ PathName(k).some
           /\ PathCode(k).some
           /\ PathName(k).score < PathCode(k).score
           /\ PathCode(k).score < I64_MAX
    /\ \E k \in 0..(Len(aliases) - 1) : PathName(k).some /\ ~PathCode(k).some
    /\ \E k \in 0..(Len(aliases) - 1) : ~PathName(k).some /\ PathCode(k).some
    /\ Len(matches.matches) < Len(aliases)

\* C17: Ctrl-R, a character, Backspace and Ctrl-U never rank and leave the
\* cached result and its (selection, group) pair unchanged.
C17_InputsDeferRanking ==
    [][ last_op' \in InputOps => ~ranked' /\ matches' = matches ]_vars

\* an input made after a render, with the cached result now out of date
C17_Witness ==
    /\ last_op \in InputOps
    /\ matches.some
    /\ Len(matches.matches) > 0
    /\ ~Fresh

\* C18: move_up decrements the cursor by exactly 1 when it is above 0, sets
\* top_row to the new cursor if that is below top_row and leaves top_row
\* unchanged otherwise, so it never increases top_row.
C18_MoveUpStep ==
    [][ last_op' = "up" =>
          /\ selected_row' = IF selected_row > 0 THEN selected_row - 1 ELSE 0
          /\ top_row' = IF selected_row' < top_row THEN selected_row' ELSE top_row
          /\ top_row' <= top_row ]_vars

\* move_up has left a scrolled window of three rows where it was
C18_Witness ==
    /\ last_op = "up"
    /\ max_rows_on_screen >= 3
    /\ top_row >= 1
    /\ selected_row >= top_row + 1

\* C19: Ctrl-R moves group to the next group and empties the selection, and
\* a render that directly follows it caches exactly the aliases of the new
\* group in catalog order.
C19_CycleGroupBrowses ==
    [][ /\ last_op' = "cycle" => group' = next(group) /\ selection' = <<>>
        /\ (last_op = "cycle" /\ last_op' = "render")
               => selection' = <<>> /\ ListsGroup(matches'.matches, group') ]_vars

\* Ctrl-R pressed while the cached result is that of a typed selection
C19_Witness ==
    /\ last_op = "cycle"
    /\ matches.some
    /\ matches.selection # <<>>
    /\ Len(matches.matches) > 0

\* C20: move_up and move_down leave the selection, the group, the catalog,
\* max_rows_on_screen and the cached result unchanged, so a cached result
\* that is current stays current and the render after the move does not rank.
C20_MovesKeepCache ==
    [][ /\ last_op' \in MoveOps =>
               /\ UNCHANGED <<selection, group, aliases, max_rows_on_screen, matches>>
               /\ (Fresh => Fresh')
        /\ (last_op \in MoveOps /\ Fresh /\ last_op' = "render") => ~ranked' ]_vars

\* a render that followed a cursor movement without ranking again
C20_Witness ==
    /\ last_op = "render"
    /\ ~ranked
    /\ selected_row > 0
    /\ top_row > 0

====
